---- MODULE Spec2Model ----
(***************************************************************************)
(* A model of the on-device audio inference pipeline:                      *)
(*   - MLProcessor (ml_processor.h / ml_processor.cpp): constructor,       *)
(*     destructor and processAudio;                                        *)
(*   - the JNI bridge (jni_wrapper.cpp): nativeInit, nativeProcessAudio    *)
(*     and nativeClose.                                                    *)
(* The TensorFlow Lite C library is an external black box: each of its     *)
(* calls may succeed or fail, and Invoke computes the output tensor as a   *)
(* deterministic function of the input tensor's contents.                  *)
(***************************************************************************)
EXTENDS Integers, Naturals, Sequences, FiniteSets, TLC

(***************************************************************************)
(* Bounds.  MODEL_INPUT_LEN is 512 in ml_processor.h:30; the model is      *)
(* parametric in it and is checked with a small window length.             *)
(***************************************************************************)
MODEL_INPUT_LEN == 2

\* Longest audio array a caller passes: one sample more than the window.
MaxAudioLen == MODEL_INPUT_LEN + 1

\* How many times a caller calls nativeClose with a handle that is not 0
MaxCloses == 2

(***************************************************************************)
(* IEEE-754 binary32 values, as far as the pipeline uses them.  A float is *)
(* [m, e], standing for m * 2^e, with 2^23 <= |m| < 2^24 unless it is 0    *)
(* (2^23 = 8388608, 2^24 = 16777216).                                      *)
(***************************************************************************)
IntAbs(x) == IF x < 0 THEN -x ELSE x

F32Zero == [m |-> 0, e |-> 0]

F32One == [m |-> 8388608, e |-> -23]

RECURSIVE F32Norm(_, _)
F32Norm(m, e) ==
    IF IntAbs(m) >= 8388608 THEN [m |-> m, e |-> e] ELSE F32Norm(2 * m, e - 1)

\* static_cast<float>(int16_t): exact, every int16 fits in 24 bits.
ToF32(x) == IF x = 0 THEN F32Zero ELSE F32Norm(x, 0)

\* std::abs(float)
F32Abs(x) == [m |-> IntAbs(x.m), e |-> x.e]

\* a > b on magnitudes, for a and b not zero
F32MagGt(a, b) == a.e > b.e \/ (a.e = b.e /\ IntAbs(a.m) > IntAbs(b.m))

\* a > b
F32Gt(a, b) ==
    IF a.m > 0 THEN (IF b.m > 0 THEN F32MagGt(a, b) ELSE TRUE)
    ELSE IF a.m = 0 THEN b.m < 0
    ELSE (IF b.m < 0 THEN F32MagGt(b, a) ELSE FALSE)

\* n steps of binary long division of r by d (r < d): the quotient bits
\* appended to q, and the remainder.
RECURSIVE DivBits(_, _, _, _)
DivBits(r, d, n, q) ==
    IF n = 0 THEN [q |-> q, r |-> r]
    ELSE IF 2 * r >= d THEN DivBits(2 * r - d, d, n - 1, 2 * q + 1)
    ELSE DivBits(2 * r, d, n - 1, 2 * q)

\* a / b in binary32, round to nearest, ties to even; b > 0.
F32Div(a, b) ==
    IF a.m = 0 THEN F32Zero
    ELSE
      LET ma   == IntAbs(a.m)
          sg   == IF a.m < 0 THEN -1 ELSE 1
          big  == ma >= b.m
          bits == IF big THEN DivBits(ma - b.m, b.m, 23, 1)
                         ELSE DivBits(ma, b.m, 24, 0)
          ex   == IF big THEN a.e - b.e - 23 ELSE a.e - b.e - 24
          up   == 2 * bits.r > b.m \/ (2 * bits.r = b.m /\ bits.q % 2 = 1)
          q    == IF up THEN bits.q + 1 ELSE bits.q
      IN  IF q = 16777216 THEN [m |-> sg * 8388608, e |-> ex + 1]
          ELSE [m |-> sg * q, e |-> ex]

\* What a read of heap memory outside a buffer may yield: zero bytes or
\* anything else.
F32Junk == [m |-> 12648430, e |-> -20]

HeapGarbage == {F32Zero, F32Junk}

(***************************************************************************)
(* processAudio, step 2: int16 -> float and peak normalization             *)
(* (ml_processor.cpp:154-170).                                             *)
(***************************************************************************)
\* std::vector<float> floatData(length): length value-initialized floats
NewFloatData(length) == [i \in 1..length |-> F32Zero]

\* The loop condition without its first conjunct
LoopCond_NoCap(i, length) == i < length

\* The condition of both loops
LoopCond(i, length) == i < MODEL_INPUT_LEN /\ i < length

\* The sample taken as it is, sign included
absValue_Signed(x) == x

absValue(x) == F32Abs(x)

\* The first loop: conversion and peak tracking.  st = [floatData, maxAmplitude]
RECURSIVE ConvertLoop(_, _, _, _)
ConvertLoop(audioData, length, i, st) ==
    IF LoopCond(i, length)
    THEN LET v == ToF32(audioData[i + 1])
             a == absValue(v)
         IN  ConvertLoop(audioData, length, i + 1,
                 [floatData    |-> [st.floatData EXCEPT ![i + 1] = v],
                  maxAmplitude |-> IF F32Gt(a, st.maxAmplitude)
                                   THEN a ELSE st.maxAmplitude])
    ELSE st

\* The second loop: division by the peak
RECURSIVE NormalizeLoop(_, _, _, _)
NormalizeLoop(floatData, length, i, maxAmplitude) ==
    IF LoopCond(i, length)
    THEN NormalizeLoop(
             [floatData EXCEPT ![i + 1] = F32Div(floatData[i + 1], maxAmplitude)],
             length, i + 1, maxAmplitude)
    ELSE floatData

\* Lines 154-170 as a whole, for length >= 0
Normalize(audioData, length) ==
    LET c == ConvertLoop(audioData, length, 0,
                 [floatData |-> NewFloatData(length), maxAmplitude |-> F32Zero])
    IN  [floatData    |-> IF F32Gt(c.maxAmplitude, F32Zero)
                          THEN NormalizeLoop(c.floatData, length, 0, c.maxAmplitude)
                          ELSE c.floatData,
         maxAmplitude |-> c.maxAmplitude]

\* The MODEL_INPUT_LEN floats TfLiteTensorCopyFromBuffer reads starting at
\* floatData.data(): the vector's elements, then whatever lies behind them.
CopySource(floatData, behind) ==
    [k \in 1..MODEL_INPUT_LEN |->
        IF k <= Len(floatData) THEN floatData[k] ELSE behind]

(***************************************************************************)
(* State.                                                                  *)
(***************************************************************************)
VARIABLES
    obj,       \* the MLProcessor object on the heap: its state and three fields
    handle,    \* the jlong the Java caller holds: 0, or the object's address
    res,       \* the TensorFlow Lite resources: "none", "live" or "deleted"
    engine,    \* the interpreter's tensors: allocated, input, output, dims
    released,  \* every release call made so far, in order
    call,      \* per thread: the processAudio call it is in
    fault      \* "none", or "crash" once the process has died

vars == <<obj, handle, res, engine, released, call, fault>>

Threads == {1, 2}

\* Pointer values: null, an indeterminate value, and the three real handles.
NULL == "null"

WILD == "wild"

ModelHandle == "M"

OptionsHandle == "O"

InterpreterHandle == "E"

\* The object's address, as the jlong nativeInit returns
ObjectAddress == 1

\* The three fields of class MLProcessor; none has an initializer.
MLProcessorFields(m, i, o) == [model |-> m, interpreter |-> i, options |-> o]

\* Memory obtained from operator new holds indeterminate values.
Indeterminate == {NULL, WILD}

\* Output shapes a model may define
OutputShapes == {<<>>, <<1>>, <<1, 2>>, <<2, 1, 2>>}

ZeroTensor == [k \in 1..MODEL_INPUT_LEN |-> F32Zero]

\* The engine as TfLiteInterpreterCreate leaves it, for a model of shape d
NewEngine(d) == [allocated |-> FALSE, input |-> ZeroTensor, output |-> <<>>, dims |-> d]

\* The k-th output value of the model run on input tensor contents in
OutValue(in, k) == [of |-> in, idx |-> k]

\* 0.0f in a result vector
OutZero == [of |-> <<>>, idx |-> 0]

IdleCall ==
    [pc |-> "idle", audioData |-> <<>>, length |-> 0, inputTensor |-> NULL,
     floatData |-> <<>>, maxAmplitude |-> F32Zero, src |-> <<>>,
     log |-> <<>>, result |-> <<>>]

\* A thread at the first statement of MLProcessor::processAudio
StartCall(audioData, length) ==
    [IdleCall EXCEPT !.pc = "start", !.audioData = audioData, !.length = length]

\* A processAudio call that has returned r
Returned(c, r) == [c EXCEPT !.pc = "done", !.result = r]

\* An engine call, as the log keeps it
Logged(c, fn, ok) == [c EXCEPT !.log = Append(@, [fn |-> fn, ok |-> ok])]

\* A handle of a resource that exists
Live(h) == IF h \in DOMAIN res THEN res[h] = "live" ELSE FALSE

\* A handle on which the engine's functions are defined
Usable(h) == h = InterpreterHandle /\ Live(h)

Init ==
    /\ obj = [state |-> "none", f |-> MLProcessorFields(NULL, NULL, NULL)]
    /\ handle = 0
    /\ res = [h \in {ModelHandle, OptionsHandle, InterpreterHandle} |-> "none"]
    /\ engine = NewEngine(<<>>)
    /\ released = <<>>
    /\ call = [t \in Threads |-> IdleCall]
    /\ fault = "none"

(***************************************************************************)
(* MLProcessor::MLProcessor (ml_processor.cpp:47-94) on fresh memory.      *)
(***************************************************************************)
MLProcessor_ctor ==
    \E i \in Indeterminate, o \in Indeterminate, d \in OutputShapes :
       \/ \* TfLiteModelCreateFromFile returns null: return at line 57
          /\ obj' = [state |-> "live", f |-> MLProcessorFields(NULL, i, o)]
          /\ UNCHANGED <<res, engine>>
       \/ \* TfLiteInterpreterCreate returns null: return at line 80
          /\ obj' = [state |-> "live",
                     f |-> MLProcessorFields(ModelHandle, NULL, OptionsHandle)]
          /\ res' = [res EXCEPT ![ModelHandle] = "live", ![OptionsHandle] = "live"]
          /\ UNCHANGED engine
       \/ \* the interpreter is created; AllocateTensors succeeds or not
          \E allocOk \in BOOLEAN :
             /\ obj' = [state |-> "live",
                        f |-> MLProcessorFields(ModelHandle, InterpreterHandle,
                                                OptionsHandle)]
             /\ res' = [h \in DOMAIN res |-> "live"]
             /\ engine' = [NewEngine(d) EXCEPT !.allocated = allocOk]

(***************************************************************************)
(* nativeInit (jni_wrapper.cpp:76-97)                                      *)
(***************************************************************************)
nativeInit(t) ==
    /\ fault = "none"
    /\ call[t].pc = "idle"
    /\ obj.state = "none"
    /\ \/ \* GetStringUTFChars fails: return 0
          UNCHANGED vars
       \/ /\ MLProcessor_ctor
          /\ handle' = ObjectAddress
          /\ UNCHANGED <<released, call, fault>>

(***************************************************************************)
(* MLProcessor::~MLProcessor (ml_processor.cpp:102-111): the release calls *)
(* it makes on an object whose fields read f, in order.                    *)
(***************************************************************************)
ReleaseIf(fn, h) == IF h # NULL THEN <<[fn |-> fn, h |-> h]>> ELSE <<>>

\* The three releases in the order of construction
MLProcessor_dtor_ModelFirst(f) ==
    ReleaseIf("TfLiteModelDelete", f.model)
      \o ReleaseIf("TfLiteInterpreterOptionsDelete", f.options)
      \o ReleaseIf("TfLiteInterpreterDelete", f.interpreter)

MLProcessor_dtor(f) ==
    ReleaseIf("TfLiteInterpreterDelete", f.interpreter)
      \o ReleaseIf("TfLiteInterpreterOptionsDelete", f.options)
      \o ReleaseIf("TfLiteModelDelete", f.model)

\* The handles a sequence of release calls names
Handles(rel) == {rel[k].h : k \in DOMAIN rel}

\* What freed memory may hold afterwards: the old bytes, or the allocator's
FreedFields(f) == {f, MLProcessorFields(WILD, WILD, WILD)}

(***************************************************************************)
(* nativeClose (jni_wrapper.cpp:180-192).  delete processor runs the       *)
(* destructor on whatever the handle points at, then frees that memory; on *)
(* memory already freed both are undefined: the process dies or goes on.   *)
(***************************************************************************)
Closes == Cardinality({k \in DOMAIN released : released[k].fn = "operator delete"})

nativeClose(t, h) ==
    /\ fault = "none"
    /\ call[t].pc = "idle"
    /\ Closes < MaxCloses
    /\ IF h = 0
       THEN \* "Attempted to close invalid processor handle"
            UNCHANGED vars
       ELSE LET rel == MLProcessor_dtor(obj.f)
                ub  == \/ obj.state # "live"
                       \/ \E x \in Handles(rel) : ~Live(x)
            IN  /\ released' = released \o rel \o <<[fn |-> "operator delete", h |-> "this"]>>
                /\ res' = [x \in DOMAIN res |->
                              IF x \in Handles(rel) /\ res[x] = "live"
                              THEN "deleted" ELSE res[x]]
                /\ \E f \in FreedFields(obj.f) : obj' = [state |-> "freed", f |-> f]
                /\ \E crash \in BOOLEAN :
                      /\ crash => ub
                      /\ fault' = IF crash THEN "crash" ELSE "none"
                /\ UNCHANGED <<handle, engine, call>>

(***************************************************************************)
(* nativeProcessAudio (jni_wrapper.cpp:117-147): up to the call of         *)
(* processor->processAudio(data, length).                                  *)
(***************************************************************************)
nativeProcessAudio(t, h, audioData) ==
    /\ fault = "none"
    /\ call[t].pc = "idle"
    /\ \E gotElements \in BOOLEAN :
          call' = [call EXCEPT ![t] =
                     IF h = 0 \/ Len(audioData) <= 0 \/ ~gotElements
                     THEN Returned(IdleCall, <<>>)
                     ELSE StartCall(audioData, Len(audioData))]
    /\ UNCHANGED <<obj, handle, res, engine, released, fault>>

\* MLProcessor::processAudio called by a native caller on the live object
processAudio_call(t, audioData, length) ==
    /\ fault = "none"
    /\ call[t].pc = "idle"
    /\ obj.state = "live"
    /\ call' = [call EXCEPT ![t] = StartCall(audioData, length)]
    /\ UNCHANGED <<obj, handle, res, engine, released, fault>>

(***************************************************************************)
(* MLProcessor::processAudio (ml_processor.cpp:128-223), one action per    *)
(* access to the engine.                                                   *)
(***************************************************************************)
InputTensor == "Tin"

\* No check of the interpreter pointer
InterpreterIsNull_Unchecked(itp) == FALSE

\* Lines 131-134: !interpreter
InterpreterIsNull(itp) == itp = NULL

\* Lines 131-145: the interpreter check and TfLiteInterpreterGetInputTensor
processAudio_GetInput(t) ==
    LET c   == call[t]
        itp == obj.f.interpreter
    IN  /\ fault = "none"
        /\ c.pc = "start"
        /\ IF InterpreterIsNull(itp)
           THEN /\ call' = [call EXCEPT ![t] = Returned(c, <<>>)]
                /\ fault' = fault
           ELSE \E ok \in BOOLEAN, crash \in BOOLEAN :
                   /\ crash => ~Usable(itp)
                   /\ fault' = IF crash THEN "crash" ELSE "none"
                   /\ call' = [call EXCEPT ![t] =
                        IF ok
                        THEN [Logged(c, "GetInputTensor", TRUE) EXCEPT
                                 !.pc = "gotInput",
                                 !.inputTensor = IF Usable(itp) THEN InputTensor ELSE WILD]
                        ELSE Returned(Logged(c, "GetInputTensor", FALSE), <<>>)]
        /\ UNCHANGED <<obj, handle, res, engine, released>>

\* Lines 154-180: the float buffer, the two loops and
\* TfLiteTensorCopyFromBuffer, whose status is dropped
processAudio_Write(t) ==
    LET c == call[t]
    IN  /\ fault = "none"
        /\ c.pc = "gotInput"
        /\ IF c.length < 0
           THEN \* std::vector<float>(length) throws std::length_error
                /\ call' = [call EXCEPT ![t].pc = "threw"]
                /\ UNCHANGED <<engine, fault>>
           ELSE LET n      == Normalize(c.audioData, c.length)
                    short  == c.length < MODEL_INPUT_LEN
                    target == /\ c.inputTensor = InputTensor
                              /\ res[InterpreterHandle] = "live"
                    ready  == target /\ engine.allocated
                IN  \E behind \in (IF short THEN HeapGarbage ELSE {F32Zero}),
                       ok \in BOOLEAN, crash \in BOOLEAN :
                       LET src == CopySource(n.floatData, behind)
                       IN  /\ crash => (short \/ ~ready)
                           /\ (target /\ ~engine.allocated) => ~ok
                           /\ fault' = IF crash THEN "crash" ELSE "none"
                           /\ call' = [call EXCEPT ![t] =
                                [Logged(c, "CopyFromBuffer", ok) EXCEPT
                                    !.pc = "written",
                                    !.floatData = n.floatData,
                                    !.maxAmplitude = n.maxAmplitude,
                                    !.src = src]]
                           /\ engine' = IF ok /\ ready /\ ~crash
                                        THEN [engine EXCEPT !.input = src]
                                        ELSE engine
        /\ UNCHANGED <<obj, handle, res, released>>

\* The call goes on to the output tensor whatever the status of Invoke
AfterInvoke_GoOn(c, ok) == [Logged(c, "Invoke", ok) EXCEPT !.pc = "invoked"]

\* Lines 187-190: the status check after TfLiteInterpreterInvoke
AfterInvoke(c, ok) ==
    IF ok THEN [Logged(c, "Invoke", TRUE) EXCEPT !.pc = "invoked"]
    ELSE Returned(Logged(c, "Invoke", FALSE), <<>>)

\* Lines 187-190: TfLiteInterpreterInvoke
processAudio_Invoke(t) ==
    LET c     == call[t]
        itp   == obj.f.interpreter
        ready == Usable(itp) /\ engine.allocated
    IN  /\ fault = "none"
        /\ c.pc = "written"
        /\ \E ok \in BOOLEAN, crash \in BOOLEAN :
              /\ crash => ~ready
              /\ (Usable(itp) /\ ~engine.allocated) => ~ok
              /\ fault' = IF crash THEN "crash" ELSE "none"
              /\ call' = [call EXCEPT ![t] = AfterInvoke(c, ok)]
              /\ engine' = IF ok /\ ready /\ ~crash
                           THEN [engine EXCEPT !.output = engine.input]
                           ELSE engine
        /\ UNCHANGED <<obj, handle, res, released>>

\* The size of the first dimension alone
Product_FirstDim(dims) == IF dims = <<>> THEN 1 ELSE Head(dims)

\* Lines 209-212: outputSize, the product of the sizes of all dimensions
RECURSIVE Product(_)
Product(dims) == IF dims = <<>> THEN 1 ELSE Head(dims) * Product(Tail(dims))

\* Lines 197-222: TfLiteInterpreterGetOutputTensor, the output size and
\* TfLiteTensorCopyToBuffer, whose status is dropped
processAudio_Extract(t) ==
    LET c     == call[t]
        itp   == obj.f.interpreter
        ready == Usable(itp) /\ engine.allocated
        outputSize == Product(engine.dims)
    IN  /\ fault = "none"
        /\ c.pc = "invoked"
        /\ \E got \in BOOLEAN, ok \in BOOLEAN, crash \in BOOLEAN :
              /\ crash => ~ready
              /\ fault' = IF crash THEN "crash" ELSE "none"
              /\ call' = [call EXCEPT ![t] =
                    IF ~got
                    THEN Returned(Logged(c, "GetOutputTensor", FALSE), <<>>)
                    ELSE Returned(
                           Logged(Logged(c, "GetOutputTensor", TRUE), "CopyToBuffer", ok),
                           [k \in 1..outputSize |->
                               IF ok /\ ready THEN OutValue(engine.output, k)
                               ELSE OutZero])]
        /\ UNCHANGED <<obj, handle, res, engine, released>>

\* The caller takes the result (jni_wrapper.cpp:149-160)
Return(t) ==
    /\ fault = "none"
    /\ call[t].pc = "done"
    /\ call' = [call EXCEPT ![t] = IdleCall]
    /\ UNCHANGED <<obj, handle, res, engine, released, fault>>

processAudio_steps(t) ==
    \/ processAudio_GetInput(t)
    \/ processAudio_Write(t)
    \/ processAudio_Invoke(t)
    \/ processAudio_Extract(t)
    \/ Return(t)

(***************************************************************************)
(* Inputs.                                                                 *)
(***************************************************************************)
\* All sample arrays over S of n samples at most
RECURSIVE SeqsUpTo(_, _)
SeqsUpTo(S, n) ==
    IF n = 0 THEN {<<>>}
    ELSE LET shorter == SeqsUpTo(S, n - 1)
         IN  shorter \cup {Append(a, x) : a \in {b \in shorter : Len(b) = n - 1}, x \in S}

\* The arrays of this specification differ in length only; the values of
\* the samples vary under SpecNorm.
Samples == {3}

AudioInputs == SeqsUpTo(Samples, MaxAudioLen)

\* The lengths a native caller passes with an array: its size, or for the
\* empty array a negative number
LengthsFor(audioData) == {Len(audioData)} \cup (IF audioData = <<>> THEN {-1} ELSE {})

(***************************************************************************)
(* The life of one processor used by one caller thread.                    *)
(***************************************************************************)
Next ==
    \/ nativeInit(1)
    \/ \E h \in {0, handle}, a \in AudioInputs : nativeProcessAudio(1, h, a)
    \/ \E a \in AudioInputs : \E n \in LengthsFor(a) : processAudio_call(1, a, n)
    \/ processAudio_steps(1)
    \/ \E h \in {0, handle} : nativeClose(1, h)

Spec == Init /\ [][Next]_vars

(***************************************************************************)
(* Two threads sharing one handle.                                         *)
(***************************************************************************)
ConcInputs == {a \in SeqsUpTo({0, 3}, MODEL_INPUT_LEN) : Len(a) = MODEL_INPUT_LEN}

NextConc ==
    \/ nativeInit(1)
    \/ \E t \in Threads :
          \/ \E a \in ConcInputs : nativeProcessAudio(t, handle, a)
          \/ processAudio_steps(t)

SpecConc == Init /\ [][NextConc]_vars

(***************************************************************************)
(* One processAudio call on a fully constructed processor, for every input *)
(* over a wider range of samples.                                          *)
(***************************************************************************)
NormSamples == {-32768, -3, 0, 1, 3, 32767}

NormInputs == SeqsUpTo(NormSamples, MaxAudioLen)

InitNorm ==
    /\ obj = [state |-> "live",
              f |-> MLProcessorFields(ModelHandle, InterpreterHandle, OptionsHandle)]
    /\ handle = ObjectAddress
    /\ res = [h \in {ModelHandle, OptionsHandle, InterpreterHandle} |-> "live"]
    /\ \E d \in OutputShapes : engine = [NewEngine(d) EXCEPT !.allocated = TRUE]
    /\ released = <<>>
    /\ \E a \in NormInputs :
          call = [t \in Threads |-> IF t = 1 THEN StartCall(a, Len(a)) ELSE IdleCall]
    /\ fault = "none"

NextNorm == processAudio_steps(1)

SpecNorm == InitNorm /\ [][NextNorm]_vars

(***************************************************************************)
(* Properties.                                                             *)
(***************************************************************************)
RealHandles == {ModelHandle, OptionsHandle, InterpreterHandle}

\* The constructor returned at line 57: the model did not load
LoadFailed == obj.state = "live" /\ obj.f.model = NULL

\* The constructor passed TfLiteInterpreterCreate and AllocateTensors failed
AllocFailed ==
    obj.state = "live" /\ Usable(obj.f.interpreter) /\ ~engine.allocated

\* The constructor succeeded in all four steps and nothing was released
Initialized ==
    obj.state = "live" /\ Usable(obj.f.interpreter) /\ engine.allocated

\* The engine functions a call has called so far
Called(c) == {c.log[k].fn : k \in DOMAIN c.log}

\* How many release calls named handle h
Releases(h) == Cardinality({k \in DOMAIN released : released[k].h = h})

SetMax(S) == CHOOSE x \in S : \A y \in S : y <= x

Min(a, b) == IF a < b THEN a ELSE b

\* C1: after a construction whose model load failed, every processAudio
\* call returns an empty vector and calls no engine function at all.
C1_LoadFailureGivesEmpty ==
    \A t \in Threads :
       LoadFailed =>
          /\ call[t].log = <<>>
          /\ call[t].pc \in {"idle", "start", "done"}
          /\ call[t].result = <<>>
          /\ fault = "none"

\* C2: whatever the number of nativeClose calls with the same handle, each
\* of the engine, the config and the model is released at most once.
C2_SecondCloseIsNoOp == \A h \in RealHandles : Releases(h) <= 1

\* C3: on an initialized instance with 0 < length < MODEL_INPUT_LEN, the
\* buffer handed to the input tensor write holds MODEL_INPUT_LEN elements:
\* the normalized samples, then zeros; the write reads nothing else.
C3_ShortInputIsZeroPadded ==
    \A t \in Threads :
       LET c == call[t]
       IN  (/\ Initialized
            /\ "CopyFromBuffer" \in Called(c)
            /\ 0 < c.length /\ c.length < MODEL_INPUT_LEN)
           => /\ Len(c.floatData) = MODEL_INPUT_LEN
              /\ c.src = c.floatData
              /\ \A k \in (c.length + 1)..MODEL_INPUT_LEN : c.src[k] = F32Zero

\* C4: after a construction whose tensor allocation failed, no processAudio
\* call writes the input tensor or invokes the engine, and each returns an
\* empty vector.
C4_AllocFailureRejectsCalls ==
    \A t \in Threads :
       AllocFailed =>
          /\ Called(call[t]) \cap {"CopyFromBuffer", "Invoke"} = {}
          /\ call[t].result = <<>>
          /\ fault = "none"

\* C5: processAudio on an initialized instance with length <= 0 returns an
\* empty vector; it builds no buffer from that length, writes no tensor and
\* does not invoke the engine.
C5_NoSamplesGivesEmpty ==
    \A t \in Threads :
       LET c == call[t]
       IN  (Initialized /\ c.pc # "idle" /\ c.length <= 0)
           => /\ c.pc \in {"start", "gotInput", "done"}
              /\ Called(c) \cap {"CopyFromBuffer", "Invoke"} = {}
              /\ c.result = <<>>

\* C6: the destruction of a processor whose construction stopped early
\* releases only handles that construction produced.
C6_PartialDestructionReleasesOwn ==
    Closes = 1 => \A k \in DOMAIN released : released[k].h \in RealHandles \cup {"this"}

\* C7: calls on one instance do not interleave their input tensor write,
\* invoke and output read, so that a call all of whose engine calls
\* succeeded returns the inference of its own input.
C7_ResultOfOwnInput ==
    \A t \in Threads :
       LET c == call[t]
       IN  (/\ Initialized
            /\ c.pc = "done"
            /\ c.result # <<>>
            /\ \A k \in DOMAIN c.log : c.log[k].ok)
           => \A k \in DOMAIN c.result : c.result[k] = OutValue(c.src, k)

\* C8: on an initialized instance, an engine call that fails ends the
\* processAudio call: no engine call follows it and the result is empty.
C8_FailureEndsTheCall ==
    \A t \in Threads :
       LET c == call[t]
       IN  Initialized =>
              \A k \in DOMAIN c.log :
                 ~c.log[k].ok => (k = Len(c.log) /\ c.pc = "done" /\ c.result = <<>>)

\* C9: for length >= 1 and a non-zero sample among the first
\* min(length, MODEL_INPUT_LEN), the peak is the largest absolute value of
\* those samples, each normalized value is sample / peak, one of them has
\* absolute value 1 and none exceeds 1 in absolute value.
C9_PeakNormalization ==
    LET c     == call[1]
        n     == Min(c.length, MODEL_INPUT_LEN)
        peak  == SetMax({IntAbs(c.audioData[i]) : i \in 1..n} \cup {0})
    IN  ("CopyFromBuffer" \in Called(c) /\ c.length >= 1 /\ peak > 0)
        => /\ c.maxAmplitude = ToF32(peak)
           /\ \A i \in 1..n :
                 /\ c.floatData[i] = F32Div(ToF32(c.audioData[i]), ToF32(peak))
                 /\ ~F32Gt(F32Abs(c.floatData[i]), F32One)
                 /\ ~F32Gt(ToF32(-1), c.floatData[i])
           /\ \E i \in 1..n : F32Abs(c.floatData[i]) = F32One

\* A finished call on an array holding -32768 and a sample whose
\* normalized value is neither 0 nor of absolute value 1.
C9_Witness ==
    LET c == call[1]
    IN  /\ c.pc = "done"
        /\ c.result # <<>>
        /\ c.length >= 1
        /\ \E i, j \in 1..Min(c.length, MODEL_INPUT_LEN) :
              /\ c.audioData[i] = -32768
              /\ c.floatData[i] = ToF32(-1)
              /\ c.floatData[j] \notin {F32Zero, F32One, ToF32(-1)}

\* The arrays longer than the window that agree with audioData on the
\* first MODEL_INPUT_LEN samples
SameWindow(audioData) ==
    {SubSeq(audioData, 1, MODEL_INPUT_LEN) \o <<x>> : x \in NormSamples}

\* C10: for length > MODEL_INPUT_LEN, the peak, the values handed to the
\* input tensor write and the result are those of every other array with
\* the same first MODEL_INPUT_LEN samples.
C10_OnlyTheWindowIsRead ==
    LET c == call[1]
    IN  ("CopyFromBuffer" \in Called(c) /\ c.length > MODEL_INPUT_LEN)
        => /\ \A a \in SameWindow(c.audioData) :
                 LET n == Normalize(a, Len(a))
                 IN  /\ n.maxAmplitude = c.maxAmplitude
                     /\ CopySource(n.floatData, F32Zero) = c.src
           /\ Len(c.src) = MODEL_INPUT_LEN
           /\ engine.input \in {ZeroTensor, c.src}
           /\ \A k \in DOMAIN c.result :
                 c.result[k] \in {OutZero, OutValue(ZeroTensor, k), OutValue(c.src, k)}

\* A finished call with a result, on an array whose sample behind the
\* window is larger than every sample in it.
C10_Witness ==
    LET c == call[1]
    IN  /\ c.pc = "done"
        /\ c.result # <<>>
        /\ c.length > MODEL_INPUT_LEN
        /\ F32Gt(c.maxAmplitude, F32Zero)
        /\ F32Gt(F32Abs(ToF32(c.audioData[MODEL_INPUT_LEN + 1])), c.maxAmplitude)
        /\ c.result[1] = OutValue(c.src, 1)

\* The number of elements of a tensor of shape dims
RECURSIVE ElementCount(_)
ElementCount(dims) ==
    IF dims = <<>> THEN 1
    ELSE ElementCount(SubSeq(dims, 1, Len(dims) - 1)) * dims[Len(dims)]

\* The engine calls of call c that returned a failure
Failed(c) == {c.log[k].fn : k \in {j \in DOMAIN c.log : ~c.log[j].ok}}

\* C11: a processAudio call with length >= 1 whose input tensor, invoke and
\* output tensor steps succeeded returns a vector of as many elements as
\* the output tensor has, whatever its rank and sizes; a returned vector of
\* any other length is empty, and an engine call of that call failed.
C11_LengthIsElementCount ==
    LET c == call[1]
    IN  c.pc = "done" =>
           /\ (/\ c.length >= 1
               /\ {"GetInputTensor", "Invoke", "GetOutputTensor"} \subseteq Called(c)
               /\ Failed(c) \cap {"GetInputTensor", "Invoke", "GetOutputTensor"} = {})
              => Len(c.result) = ElementCount(engine.dims)
           /\ Len(c.result) # ElementCount(engine.dims)
              => (c.result = <<>> /\ Failed(c) # {})

\* A successful call on a model whose output tensor has rank 3 and sizes
\* that are not all 1
C11_Witness ==
    LET c == call[1]
    IN  /\ c.pc = "done"
        /\ c.length >= 1
        /\ Failed(c) = {}
        /\ "CopyToBuffer" \in Called(c)
        /\ Len(engine.dims) = 3
        /\ Len(c.result) = 4
        /\ c.result[4] = OutValue(c.src, 4)

\* C12: once TfLiteInterpreterInvoke has returned a failure in a
\* processAudio call, that call has returned the empty vector and has
\* neither asked for the output tensor nor read it.
C12_FailedInvokeEndsTheCall ==
    \A t \in Threads :
       LET c == call[t]
       IN  "Invoke" \in Failed(c) =>
              /\ c.pc = "done"
              /\ c.result = <<>>
              /\ c.log[Len(c.log)] = [fn |-> "Invoke", ok |-> FALSE]
              /\ Called(c) \cap {"GetOutputTensor", "CopyToBuffer"} = {}

\* A call on an initialized processor that wrote the input tensor and
\* whose invoke then failed, the output tensor still holding nothing
C12_Witness ==
    LET c == call[1]
    IN  /\ Initialized
        /\ c.length >= MODEL_INPUT_LEN
        /\ c.log = <<[fn |-> "GetInputTensor", ok |-> TRUE],
                     [fn |-> "CopyFromBuffer", ok |-> TRUE],
                     [fn |-> "Invoke", ok |-> FALSE]>>
        /\ engine.input = c.src
        /\ engine.output = <<>>

\* The constructor returned at line 80: the model loaded and
\* TfLiteInterpreterCreate returned null
CreateFailed ==
    obj.state = "live" /\ obj.f.model = ModelHandle /\ obj.f.interpreter = NULL

\* C13: after a construction whose interpreter creation failed, no tensors
\* were allocated, and every processAudio call on the object returns the
\* empty vector without calling any engine function: no tensor is asked
\* for, written or read and the engine is not invoked.
C13_CreateFailureGivesEmpty ==
    \A t \in Threads :
       CreateFailed =>
          /\ res[InterpreterHandle] = "none"
          /\ engine = NewEngine(<<>>)
          /\ call[t].log = <<>>
          /\ call[t].pc \in {"idle", "start", "done"}
          /\ call[t].result = <<>>
          /\ fault = "none"

\* A processAudio call with samples that has returned on such an object
C13_Witness ==
    /\ CreateFailed
    /\ res[ModelHandle] = "live"
    /\ call[1].pc = "done"
    /\ call[1].length >= 1
    /\ call[1].audioData # <<>>

\* C14: what a processAudio call with length >= 1 hands to the input
\* tensor write, and what it returns when all its engine calls succeed, is
\* determined by its samples and its length: it is the same whatever
\* earlier calls have left in the memory behind the float buffer.
C14_CallsAreIndependent ==
    \A t \in Threads :
       LET c == call[t]
       IN  (Initialized /\ "CopyFromBuffer" \in Called(c) /\ c.length >= 1)
           => \A behind \in HeapGarbage :
                 LET src == CopySource(Normalize(c.audioData, c.length).floatData, behind)
                 IN  /\ c.src = src
                     /\ (c.pc = "done" /\ Failed(c) = {})
                        => \A k \in DOMAIN c.result : c.result[k] = OutValue(src, k)

\* The samples of a call are all 0
Silent(c) == \A i \in DOMAIN c.audioData : c.audioData[i] = 0

\* C15: a call with length >= 1 whose samples are all 0 finds a peak of 0,
\* leaves the converted samples as they are (no division by the peak) and
\* hands MODEL_INPUT_LEN zeros to the input tensor write.
C15_SilenceWritesZeros ==
    LET c == call[1]
    IN  ("CopyFromBuffer" \in Called(c) /\ c.length >= 1 /\ Silent(c))
        => /\ c.maxAmplitude = F32Zero
           /\ \A i \in DOMAIN c.floatData : c.floatData[i] = F32Zero
           /\ c.src = ZeroTensor

\* The constructor passed TfLiteInterpreterCreate: the object was built
\* with its model, its config and its engine
FullyConstructed == res[InterpreterHandle] # "none"

\* C16: the destruction of a fully constructed processor makes exactly
\* three release calls, on the engine, then on the config, then on the
\* model, before its memory is freed; at no point of the release order is
\* the model or the config released and the engine not yet.
C16_EngineBeforeConfigBeforeModel ==
    (FullyConstructed /\ Closes >= 1) =>
       /\ SubSeq(released, 1, 4) =
             <<[fn |-> "TfLiteInterpreterDelete", h |-> InterpreterHandle],
               [fn |-> "TfLiteInterpreterOptionsDelete", h |-> OptionsHandle],
               [fn |-> "TfLiteModelDelete", h |-> ModelHandle],
               [fn |-> "operator delete", h |-> "this"]>>
       /\ \A k \in DOMAIN released :
             released[k].h \in {ModelHandle, OptionsHandle}
                => \E j \in 1..(k - 1) : released[j].h = InterpreterHandle
       /\ (res[ModelHandle] = "deleted" \/ res[OptionsHandle] = "deleted")
             => res[InterpreterHandle] = "deleted"

\* A processor built in all four steps, used for a call that returned a
\* result, and then destroyed once
C16_Witness ==
    /\ Closes = 1
    /\ fault = "none"
    /\ engine.allocated
    /\ engine.output # <<>>
    /\ \A h \in RealHandles : res[h] = "deleted" /\ Releases(h) = 1

\* C17: once nativeClose has destroyed a fully constructed processor, a
\* call made with its handle calls no engine function, gets no tensor of
\* the released engine and returns the empty array, and the process goes
\* on.
C17_NoUseAfterClose ==
    \A t \in Threads :
       (FullyConstructed /\ Closes = 1) =>
          /\ call[t].log = <<>>
          /\ call[t].inputTensor = NULL
          /\ call[t].result = <<>>
          /\ fault = "none"

====
